---- MODULE Spec2Model ----
(***************************************************************************)
(* Server-sent-events parser of src/src/index.ts:                          *)
(*   createLineReader         bytes   -> lines (line, fieldLength)         *)
(*   readEventMessagePart     lines   -> field parts                       *)
(*   createEventMessageReader parts   -> messages                          *)
(* The three async generators are modelled as one pull pipeline driven by  *)
(* the consumer of createEventMessageReader.  Indices are 0-based as in    *)
(* the source; the byte at index i of a buffer b is b[i + 1].              *)
(***************************************************************************)
EXTENDS Integers, Sequences, FiniteSets, TLC

\* ControlChars
NewLine == 10
CarriageReturn == 13
Space == 32
Colon == 58

\* ------------------------------------------------------------------------
\* Bounds of the model
MaxLen == 4        \* longest byte stream of the exhaustive byte inputs
MaxEmpty == 1      \* empty chunks the source may deliver in one run
MaxLines == 3      \* lines in a composed field input
MaxPolls == 1      \* requests the consumer makes after the sequence ended

\* ------------------------------------------------------------------------
\* Generic helpers
Min(a, b) == IF a < b THEN a ELSE b

\* buffer.subarray(from) / buffer.subarray(from, to), 0-based, end exclusive
SubArray(b, from, to) == SubSeq(b, from + 1, to)

\* Uint8Array | undefined
Undefined == << >>
Some(b) == << b >>

\* ------------------------------------------------------------------------
\* line 61 without ++position after a terminator was found
RECURSIVE ScanLoopStuck(_, _, _, _, _)
ScanLoopStuck(buf, pos, ls, fl, discard) ==
  IF pos >= Len(buf)
  THEN [position |-> pos, fieldLength |-> fl, discard |-> discard, lineEnd |-> -1]
  ELSE IF buf[pos + 1] = Colon
       THEN ScanLoopStuck(buf, pos + 1, ls, IF fl = -1 THEN pos - ls ELSE fl, discard)
  ELSE IF buf[pos + 1] = CarriageReturn
       THEN [position |-> pos, fieldLength |-> fl, discard |-> TRUE, lineEnd |-> pos]
  ELSE IF buf[pos + 1] = NewLine
       THEN [position |-> pos, fieldLength |-> fl, discard |-> discard, lineEnd |-> pos]
  ELSE ScanLoopStuck(buf, pos + 1, ls, fl, discard)

\* createLineReader, lines 61-76: the for loop looking for the end of line.
RECURSIVE ScanLoop(_, _, _, _, _)
ScanLoop(buf, pos, ls, fl, discard) ==
  IF pos >= Len(buf)
  THEN [position |-> pos, fieldLength |-> fl, discard |-> discard, lineEnd |-> -1]
  ELSE IF buf[pos + 1] = Colon
       THEN ScanLoop(buf, pos + 1, ls, IF fl = -1 THEN pos - ls ELSE fl, discard)
  ELSE IF buf[pos + 1] = CarriageReturn
       THEN [position |-> pos + 1, fieldLength |-> fl, discard |-> TRUE, lineEnd |-> pos]
  ELSE IF buf[pos + 1] = NewLine
       THEN [position |-> pos + 1, fieldLength |-> fl, discard |-> discard, lineEnd |-> pos]
  ELSE ScanLoop(buf, pos + 1, ls, fl, discard)

\* lines 51-57 without the test of line 52: the byte after a CR is skipped
SkipNewlineAnyByte(buf, pos, ls, discard) ==
  IF discard
  THEN [position |-> pos + 1, lineStart |-> pos + 1]
  ELSE [position |-> pos, lineStart |-> ls]

\* a splitter that has no CR LF handling: the LF after a CR is scanned
SkipNewlineNever(buf, pos, ls, discard) == [position |-> pos, lineStart |-> ls]

\* createLineReader, lines 51-57: a LF right after a CR is skipped.
SkipNewline(buf, pos, ls, discard) ==
  IF discard /\ buf[pos + 1] = NewLine
  THEN [position |-> pos + 1, lineStart |-> pos + 1]
  ELSE [position |-> pos, lineStart |-> ls]

\* lines 39-46 left out: the new chunk replaces the bytes kept
MergeChunkReplace(buf, pos, fl, arr) == [buffer |-> arr, position |-> 0, fieldLength |-> -1]

\* a merge that forgets the colon seen in the chunks before
MergeChunkResetField(buf, pos, fl, arr) ==
  IF buf = Undefined
  THEN [buffer |-> arr, position |-> 0, fieldLength |-> -1]
  ELSE [buffer |-> buf[1] \o arr, position |-> pos, fieldLength |-> -1]

\* createLineReader, lines 35-46: the new chunk becomes or extends the buffer.
MergeChunk(buf, pos, fl, arr) ==
  IF buf = Undefined
  THEN [buffer |-> arr, position |-> 0, fieldLength |-> -1]
  ELSE [buffer |-> buf[1] \o arr, position |-> pos, fieldLength |-> fl]

\* lines 94-98 left out: the yielded lines stay in the buffer
KeepRestWhole(buf, pos, ls) ==
  IF ls = Len(buf) THEN [buffer |-> Undefined, position |-> pos]
  ELSE [buffer |-> Some(buf), position |-> pos]

\* line 98 left out: the read position is not moved with the view
KeepRestNoShift(buf, pos, ls) ==
  IF ls = Len(buf) THEN [buffer |-> Undefined, position |-> pos]
  ELSE IF ls # 0 THEN [buffer |-> Some(SubArray(buf, ls, Len(buf))), position |-> pos]
  ELSE [buffer |-> Some(buf), position |-> pos]

\* lines 92-93 left out: a used-up buffer is kept as an empty view
KeepRestEmptyView(buf, pos, ls) ==
  IF ls # 0 THEN [buffer |-> Some(SubArray(buf, ls, Len(buf))), position |-> pos - ls]
  ELSE [buffer |-> Some(buf), position |-> pos]

\* createLineReader, lines 92-99: what is kept of the buffer for the next chunk.
KeepRest(buf, pos, ls) ==
  IF ls = Len(buf) THEN [buffer |-> Undefined, position |-> pos]
  ELSE IF ls # 0 THEN [buffer |-> Some(SubArray(buf, ls, Len(buf))), position |-> pos - ls]
  ELSE [buffer |-> Some(buf), position |-> pos]

\* ------------------------------------------------------------------------
\* Text.  A string is the sequence of its code points.
Str_data == << 100, 97, 116, 97 >>
Str_event == << 101, 118, 101, 110, 116 >>
Str_id == << 105, 100 >>
Str_retry == << 114, 101, 116, 114, 121 >>

\* a decoder that maps every byte to the code point of the same number
DecodeByteLatin1(b) == b

\* new TextDecoder().decode(bytes): UTF-8, not fatal.  An ASCII byte is its
\* own code point; a byte that no UTF-8 sequence contains (0xFF) becomes
\* U+FFFD.  The model's inputs hold no other byte.
DecodeByte(b) == IF b < 128 THEN b ELSE 65533
Decode(bytes) == [i \in 1..Len(bytes) |-> DecodeByte(bytes[i])]

\* parseInt(value, 10): leading white space, an optional sign, then the
\* longest run of decimal digits; NaN when that run is empty.
IsWhiteSpace(c) == c \in {9, 10, 11, 12, 13, 32, 160}
IsDigit(c) == c >= 48 /\ c <= 57

RECURSIVE SkipWhiteSpace(_)
SkipWhiteSpace(s) ==
  IF s # << >> /\ IsWhiteSpace(Head(s)) THEN SkipWhiteSpace(Tail(s)) ELSE s

RECURSIVE DigitsValue(_, _, _)
DigitsValue(s, acc, seen) ==
  IF s # << >> /\ IsDigit(Head(s))
  THEN DigitsValue(Tail(s), acc * 10 + (Head(s) - 48), TRUE)
  ELSE [isNaN |-> ~seen, value |-> acc]

ParseInt(s) ==
  LET t == SkipWhiteSpace(s)
      neg == t # << >> /\ Head(t) = 45
      u == IF t # << >> /\ Head(t) \in {43, 45} THEN Tail(t) ELSE t
      d == DigitsValue(u, 0, FALSE)
  IN [isNaN |-> d.isNaN, value |-> IF neg THEN 0 - d.value ELSE d.value]

\* ------------------------------------------------------------------------
\* readEventMessagePart, lines 176-206: the parts one line produces (0 or 1).
\* line 185 without the test for the space
ValueOffsetNoTrim(line, fieldLength) == fieldLength + 1

ValueOffset(line, fieldLength) ==
  fieldLength +
    (IF fieldLength + 2 <= Len(line) /\ line[fieldLength + 2] = Space THEN 2 ELSE 1)

RetryPart(value) ==
  LET retry == ParseInt(value)
  IN IF ~retry.isNaN THEN << [type |-> "retry", value |-> retry.value] >> ELSE << >>

FieldPart(field, value) ==
  IF field = Str_data THEN << [type |-> "data", value |-> value] >>
  ELSE IF field = Str_event THEN << [type |-> "event", value |-> value] >>
  ELSE IF field = Str_id THEN << [type |-> "id", value |-> value] >>
  ELSE IF field = Str_retry THEN RetryPart(value)
  ELSE << >>

\* a parser that takes a line without a colon as a field with an empty value
PartsOfLineBareField(line, fieldLength) ==
  IF Len(line) = 0 THEN << [type |-> "empty"] >>
  ELSE IF fieldLength > 0
       THEN FieldPart(Decode(SubArray(line, 0, fieldLength)),
                      Decode(SubArray(line, ValueOffset(line, fieldLength), Len(line))))
  ELSE IF fieldLength = -1 THEN FieldPart(Decode(line), << >>)
  ELSE << >>

PartsOfLine(line, fieldLength) ==
  IF Len(line) = 0 THEN << [type |-> "empty"] >>
  ELSE IF fieldLength > 0
       THEN FieldPart(Decode(SubArray(line, 0, fieldLength)),
                      Decode(SubArray(line, ValueOffset(line, fieldLength), Len(line))))
       ELSE << >>

\* ------------------------------------------------------------------------
\* createEventMessageReader.  retry: << >> is undefined, << n >> is n.
NewMessage == [data |-> << >>, event |-> << >>, id |-> << >>, retry |-> << >>]

\* lines 236-238 joining every value, the first included
AppendDataAlways(data, value) == data \o << NewLine >> \o value

\* lines 233-239
AppendData(data, value) ==
  IF data # << >> THEN data \o << NewLine >> \o value ELSE value

\* lines 241-243 keeping the first event name of a message
ApplyPartFirstEvent(msg, part) ==
  IF part.type = "empty" THEN [message |-> NewMessage, emitted |-> << msg >>]
  ELSE IF part.type = "data"
       THEN [message |-> [msg EXCEPT !.data =
                            IF msg.data # << >> THEN msg.data \o << NewLine >> \o part.value
                            ELSE part.value],
             emitted |-> << >>]
  ELSE IF part.type = "event"
       THEN [message |-> [msg EXCEPT !.event =
                            IF msg.event # << >> THEN msg.event ELSE part.value],
             emitted |-> << >>]
  ELSE IF part.type = "id"
       THEN [message |-> [msg EXCEPT !.id = part.value], emitted |-> << >>]
  ELSE [message |-> [msg EXCEPT !.retry = << part.value >>], emitted |-> << >>]

\* the reset of lines 225-230 keeping id, as a browser keeps the last event id
ApplyPartKeepId(msg, part) ==
  IF part.type = "empty"
  THEN [message |-> [NewMessage EXCEPT !.id = msg.id], emitted |-> << msg >>]
  ELSE IF part.type = "data"
       THEN [message |-> [msg EXCEPT !.data =
                            IF msg.data # << >> THEN msg.data \o << NewLine >> \o part.value
                            ELSE part.value],
             emitted |-> << >>]
  ELSE IF part.type = "event"
       THEN [message |-> [msg EXCEPT !.event = part.value], emitted |-> << >>]
  ELSE IF part.type = "id"
       THEN [message |-> [msg EXCEPT !.id = part.value], emitted |-> << >>]
  ELSE [message |-> [msg EXCEPT !.retry = << part.value >>], emitted |-> << >>]

\* lines 221-252: the message after the part, and what the part made it yield
ApplyPart(msg, part) ==
  IF part.type = "empty" THEN [message |-> NewMessage, emitted |-> << msg >>]
  ELSE IF part.type = "data"
       THEN [message |-> [msg EXCEPT !.data = AppendData(msg.data, part.value)],
             emitted |-> << >>]
  ELSE IF part.type = "event"
       THEN [message |-> [msg EXCEPT !.event = part.value], emitted |-> << >>]
  ELSE IF part.type = "id"
       THEN [message |-> [msg EXCEPT !.id = part.value], emitted |-> << >>]
  ELSE [message |-> [msg EXCEPT !.retry = << part.value >>], emitted |-> << >>]

\* lines 220-253: the for-await body applied to the parts of one line
ApplyParts(msg, ps) ==
  IF ps = << >> THEN [message |-> msg, emitted |-> << >>] ELSE ApplyPart(msg, ps[1])

\* line 255 guarded: a message with no field set is not worth yielding
OnPartsEndIfContent(msgs, msg) == IF msg = NewMessage THEN msgs ELSE Append(msgs, msg)

\* line 255 left out
OnPartsEndNever(msgs, msg) == msgs

\* line 255: the upstream sequence ended normally
OnPartsEnd(msgs, msg) == Append(msgs, msg)

\* line 32, 175, 220: no generator catches; its consumer's request is rejected
\* with the value the read was rejected with
Rethrown(e) == << e >>

\* line 255 in a finally block: the accumulated message is flushed on failure
OnReadRejectedFlush(msgs, msg) == Append(msgs, msg)

\* lines 220, 175, 32: a rejected read leaves all three generators by the
\* exception; nothing is yielded on the way out.
OnReadRejected(msgs, msg) == msgs

\* ------------------------------------------------------------------------
\* The streams the source is driven with.

\* every byte stream of at most MaxLen bytes over LF, CR, ':' and 'a'
ByteAlphabet == {NewLine, CarriageReturn, Colon, 97}
ByteInputs == UNION {[1..n -> ByteAlphabet] : n \in 0..MaxLen}

\* lines of field inputs
FieldLines ==
  { << >>,                                          \* blank line
    << 100, 97, 116, 97, 58, 97 >>,                 \* data:a
    << 100, 97, 116, 97, 58, 32, 98 >>,             \* data: b
    << 100, 97, 116, 97, 58 >>,                     \* data:
    << 100, 97, 116, 97, 58, 32, 32, 97 >>,         \* data:  a
    << 105, 100, 58, 32, 97, 58, 32, 98 >>,         \* id: a: b
    << 105, 100, 58, 97 >>,                         \* id:a
    << 101, 118, 101, 110, 116, 58, 97 >>,          \* event:a
    << 114, 101, 116, 114, 121, 58, 49 >>,          \* retry:1
    << 114, 101, 116, 114, 121, 58, 49, 97 >>,      \* retry:1a
    << 114, 101, 116, 114, 121, 58, 97 >>,          \* retry:a
    << 102, 111, 111, 58, 97 >> }                   \* foo:a

\* the lines ls, each followed by the terminator T
RECURSIVE JoinLines(_, _)
JoinLines(ls, T) ==
  IF ls = << >> THEN << >> ELSE Head(ls) \o T \o JoinLines(Tail(ls), T)

\* "a:", "", ":a", each ended by LF, by CR, or by CR LF
TerminatorInputs ==
  {JoinLines(<< << 97, 58 >>, << >>, << 58, 97 >> >>, T) :
     T \in { << NewLine >>, << CarriageReturn >>, << CarriageReturn, NewLine >> }}

\* at most MaxLines lines, each ended by LF
FieldInputs == {JoinLines(ls, << NewLine >>) : ls \in UNION {[1..n -> FieldLines] : n \in 0..MaxLines}}

\* "id: abc\ndata: def\n"
ExIdData ==
  << 105, 100, 58, 32, 97, 98, 99, 10, 100, 97, 116, 97, 58, 32, 100, 101, 102, 10 >>
\* "event: add\ndata: 1\n\nevent: remove\ndata: 2\n\n"
ExAddRemove ==
  << 101, 118, 101, 110, 116, 58, 32, 97, 100, 100, 10, 100, 97, 116, 97, 58, 32, 49, 10, 10,
     101, 118, 101, 110, 116, 58, 32, 114, 101, 109, 111, 118, 101, 10,
     100, 97, 116, 97, 58, 32, 50, 10, 10 >>
\* "data: a\ndata: b\n\n"
ExDataAB == << 100, 97, 116, 97, 58, 32, 97, 10, 100, 97, 116, 97, 58, 32, 98, 10, 10 >>
\* "foo: bar\nid: abc\n"
ExFooBar == << 102, 111, 111, 58, 32, 98, 97, 114, 10, 105, 100, 58, 32, 97, 98, 99, 10 >>
\* "retry: x\nid: abc\n"
ExRetryX == << 114, 101, 116, 114, 121, 58, 32, 120, 10, 105, 100, 58, 32, 97, 98, 99, 10 >>
\* "id: abc: def\n"
ExColons == << 105, 100, 58, 32, 97, 98, 99, 58, 32, 100, 101, 102, 10 >>
\* "\ndata: data1\ndata: data2\ndata: data3"
ExUnterminated ==
  << 10, 100, 97, 116, 97, 58, 32, 100, 97, 116, 97, 49, 10,
     100, 97, 116, 97, 58, 32, 100, 97, 116, 97, 50, 10,
     100, 97, 116, 97, 58, 32, 100, 97, 116, 97, 51 >>

\* "data:\xFFa\nid:a\n": a value with a byte that is not UTF-8
ExBadValue == << 100, 97, 116, 97, 58, 255, 97, 10, 105, 100, 58, 97, 10 >>
\* "\xFFd:a\nid:a\n": a field name with a byte that is not UTF-8
ExBadName == << 255, 100, 58, 97, 10, 105, 100, 58, 97, 10 >>

\* ":c\ndata\nid:a\n:\n\n": comments and a line without a colon
ExComments ==
  << 58, 99, 10, 100, 97, 116, 97, 10, 105, 100, 58, 97, 10, 58, 10, 10 >>

\* "event:a\nevent:b\nretry:1\nretry:2\nid:a\nid:b\ndata:x\n\n": fields set twice
ExLastWrite ==
  << 101, 118, 101, 110, 116, 58, 97, 10, 101, 118, 101, 110, 116, 58, 98, 10,
     114, 101, 116, 114, 121, 58, 49, 10, 114, 101, 116, 114, 121, 58, 50, 10,
     105, 100, 58, 97, 10, 105, 100, 58, 98, 10, 100, 97, 116, 97, 58, 120, 10, 10 >>

ExampleInputs ==
  {ExIdData, ExAddRemove, ExDataAB, ExFooBar, ExRetryX, ExColons, ExUnterminated,
   ExBadValue, ExBadName, ExComments, ExLastWrite}

\* the values a rejected read may carry
Errors == {"NetworkError", "AbortError"}

\* ------------------------------------------------------------------------
VARIABLES
  input,      \* the bytes the source will deliver
  sizes,      \* the chunk sizes the source uses (0: it may deliver empty chunks)
  rest,       \* the bytes of input not delivered yet
  empties,    \* empty chunks delivered
  cuts,       \* offsets of input at which a chunk boundary fell
  reads,      \* calls of reader.read()
  buffer, position, fieldLength, discardTrailingNewline, lineStart,
  pc,         \* where createLineReader is: "read" (awaiting reader.read()),
              \* "scan" (while loop, line 50), "yield" (line 86),
              \* "final" (line 105), "done", "failed", "returned"
  message,    \* the accumulator of createEventMessageReader
  lines,      \* what createLineReader has yielded
  parts,      \* what readEventMessagePart has yielded
  messages,   \* what createEventMessageReader has yielded
  rejected,   \* << >>, or << e >> once reader.read() has rejected with e
  thrown,     \* << >>, or << e >> once the consumer's request was rejected with e
  polls,      \* requests of the consumer after the sequence ended
  requests,   \* elements the consumer of createLineReader has asked for
  pulled,     \* << >>, or << r >>: the last call of reader.read() was made for
              \* request r.request, after r.received bytes had been received
  heap,       \* the message objects created so far, by reference
  msgRef,     \* the object the variable message of createEventMessageReader holds
  yieldedRefs,  \* the objects createEventMessageReader has yielded
  tamperedRef   \* << >>, or << r >>: the consumer has overwritten object r

vars == << input, sizes, rest, empties, cuts, reads, buffer, position, fieldLength,
           discardTrailingNewline, lineStart, pc, message, lines, parts, messages,
           rejected, thrown, polls, requests, pulled, heap, msgRef, yieldedRefs,
           tamperedRef >>

srcVars == << input, sizes >>
errVars == << rejected, thrown >>
demandVars == << requests, pulled >>
objVars == << heap, msgRef, yieldedRefs, tamperedRef >>

\* the state after createEventMessageReader(reader) and the first request
InitPipeline ==
  /\ rest = input
  /\ empties = 0
  /\ cuts = {}
  /\ reads = 0
  /\ buffer = Undefined
  /\ position = 0
  /\ fieldLength = -1
  /\ discardTrailingNewline = FALSE
  /\ lineStart = 0
  /\ pc = "read"
  /\ message = NewMessage
  /\ lines = << >>
  /\ parts = << >>
  /\ messages = << >>
  /\ rejected = << >>
  /\ thrown = << >>
  /\ polls = 0
  /\ requests = 1
  /\ pulled = << >>
  /\ heap = << NewMessage >>
  /\ msgRef = 1
  /\ yieldedRefs = << >>
  /\ tamperedRef = << >>

\* any byte stream, cut anywhere
Init ==
  /\ input \in ByteInputs \cup TerminatorInputs
  /\ sizes = 0..Len(input)
  /\ InitPipeline

\* any byte stream, delivered byte by byte (with or without empty chunks in
\* between), two bytes at a time, or whole
InitLive ==
  /\ input \in ByteInputs \cup TerminatorInputs
  /\ sizes \in {{1}, {0, 1}, {2}, {Len(input) + 1}}
  /\ InitPipeline

\* field and example streams, delivered whole or in chunks of 3 bytes
InitSSE ==
  /\ input \in FieldInputs \cup ExampleInputs
  /\ sizes \in {{3}, {Len(input) + 1}}
  /\ InitPipeline

\* ------------------------------------------------------------------------
\* line 222: the part of the line is the empty part
IsEmptyLine(ps) == ps # << >> /\ ps[1].type = "empty"

\* createEventMessageReader is suspended at line 224 or has ended at line 255:
\* the variable message still holds the object last yielded
AtMessageYield == yieldedRefs # << >> /\ msgRef = yieldedRefs[Len(yieldedRefs)]

\* a reset that clears the fields of the object the variable holds
ClearedInPlace(h, ref) == [heap |-> [h EXCEPT ![ref] = NewMessage], msgRef |-> ref]

\* lines 225-230: the variable message is given a new object
FreshMessage(h, ref) == [heap |-> Append(h, NewMessage), msgRef |-> Len(h) + 1]

\* What the consumers of createLineReader do with a yielded line
\* (readEventMessagePart lines 175-207, createEventMessageReader lines 220-253).
Deliver(line, fl) ==
  LET ps == PartsOfLine(line, fl)
      a == ApplyParts(message, ps)
  IN /\ lines' = Append(lines, [line |-> line, fieldLength |-> fl])
     /\ parts' = parts \o ps
     /\ message' = a.message
     /\ messages' = messages \o a.emitted
     /\ IF IsEmptyLine(ps)
        THEN /\ yieldedRefs' = Append(yieldedRefs, msgRef)
             /\ heap' = heap
        ELSE /\ yieldedRefs' = yieldedRefs
             /\ heap' = [heap EXCEPT ![msgRef] = ApplyParts(heap[msgRef], ps).message]
     /\ UNCHANGED << msgRef, tamperedRef >>

\* the bytes the source has delivered
Delivered == SubSeq(input, 1, Len(input) - Len(rest))

\* line 32: reader.read() is called for the request being served
Pull == << [request |-> requests, received |-> Len(Delivered)] >>

\* lines 32-49: reader.read() resolves with a chunk of n bytes
ReadChunk(n) ==
  /\ pc = "read"
  /\ n <= Len(rest)
  /\ IF n = 0 THEN 0 \in sizes /\ empties < MaxEmpty
     ELSE \E s \in sizes : n = Min(s, Len(rest))
  /\ LET arr == SubSeq(rest, 1, n)
         m == MergeChunk(buffer, position, fieldLength, arr)
     IN /\ buffer' = Some(m.buffer)
        /\ position' = m.position
        /\ fieldLength' = m.fieldLength
  /\ lineStart' = 0
  /\ rest' = SubSeq(rest, n + 1, Len(rest))
  /\ empties' = IF n = 0 THEN empties + 1 ELSE empties
  /\ cuts' = cuts \cup ({Len(input) - Len(rest)} \cap 1..(Len(input) - 1))
  /\ reads' = reads + 1
  /\ pulled' = Pull
  /\ pc' = "scan"
  /\ UNCHANGED << srcVars, discardTrailingNewline, message, lines, parts, messages,
                  errVars, polls, requests, objVars >>

\* lines 92-99, then back to line 32
EndOfChunk(buf, pos, ls) ==
  LET k == KeepRest(buf, pos, ls)
  IN /\ buffer' = k.buffer
     /\ position' = k.position
     /\ lineStart' = 0
     /\ pc' = "read"

\* line 50: the chunk is used up
ScanExit ==
  /\ pc = "scan"
  /\ position >= Len(buffer[1])
  /\ EndOfChunk(buffer[1], position, lineStart)
  /\ UNCHANGED << srcVars, rest, empties, cuts, reads, fieldLength, discardTrailingNewline,
                  message, lines, parts, messages, errVars, polls, demandVars, objVars >>

\* lines 50-82: the buffer ends before the line does
ScanBreak ==
  /\ pc = "scan"
  /\ position < Len(buffer[1])
  /\ LET buf == buffer[1]
         s == SkipNewline(buf, position, lineStart, discardTrailingNewline)
         r == ScanLoop(buf, s.position, s.lineStart, fieldLength, FALSE)
     IN /\ r.lineEnd = -1
        /\ fieldLength' = r.fieldLength
        /\ discardTrailingNewline' = r.discard
        /\ EndOfChunk(buf, r.position, s.lineStart)
  /\ UNCHANGED << srcVars, rest, empties, cuts, reads, message, lines, parts, messages,
                  errVars, polls, demandVars, objVars >>

\* lines 50-86: a terminator is found and the line is yielded
ScanYield ==
  /\ pc = "scan"
  /\ position < Len(buffer[1])
  /\ LET buf == buffer[1]
         s == SkipNewline(buf, position, lineStart, discardTrailingNewline)
         r == ScanLoop(buf, s.position, s.lineStart, fieldLength, FALSE)
     IN /\ r.lineEnd # -1
        /\ position' = r.position
        /\ fieldLength' = r.fieldLength
        /\ discardTrailingNewline' = r.discard
        /\ lineStart' = s.lineStart
        /\ Deliver(SubArray(buf, s.lineStart, r.lineEnd), r.fieldLength)
  /\ pc' = "yield"
  /\ UNCHANGED << srcVars, rest, empties, cuts, reads, buffer, errVars, polls,
                  demandVars >>

\* a Resume that goes back to reader.read() with what is left of the buffer
ResumeReadAhead ==
  /\ pc = "yield"
  /\ fieldLength' = -1
  /\ requests' = requests + 1
  /\ EndOfChunk(buffer[1], position, position)
  /\ UNCHANGED << srcVars, rest, empties, cuts, reads, discardTrailingNewline,
                  message, lines, parts, messages, errVars, polls, pulled, objVars >>

\* lines 88-89: the consumer asks for the next line
Resume ==
  /\ pc = "yield"
  /\ lineStart' = position
  /\ fieldLength' = -1
  /\ requests' = requests + 1
  /\ LET f == IF AtMessageYield
              THEN FreshMessage(heap, msgRef)
              ELSE [heap |-> heap, msgRef |-> msgRef]
     IN heap' = f.heap /\ msgRef' = f.msgRef
  /\ pc' = "scan"
  /\ UNCHANGED << srcVars, rest, empties, cuts, reads, buffer, position,
                  discardTrailingNewline, message, lines, parts, messages, errVars,
                  polls, pulled, yieldedRefs, tamperedRef >>

\* lines 32, 103-105: end of stream with bytes left in the buffer
ReadDoneFinalLine ==
  /\ pc = "read"
  /\ rest = << >>
  /\ buffer # Undefined
  /\ Deliver(buffer[1], fieldLength)
  /\ reads' = reads + 1
  /\ pulled' = Pull
  /\ pc' = "final"
  /\ UNCHANGED << srcVars, rest, empties, cuts, buffer, position, fieldLength,
                  discardTrailingNewline, lineStart, errVars, polls, requests >>

\* lines 32, 103, 107: end of stream with no buffer; line 255 follows
ReadDoneEmpty ==
  /\ pc = "read"
  /\ rest = << >>
  /\ buffer = Undefined
  /\ reads' = reads + 1
  /\ pulled' = Pull
  /\ messages' = OnPartsEnd(messages, message)
  /\ yieldedRefs' = Append(yieldedRefs, msgRef)
  /\ pc' = "done"
  /\ UNCHANGED << srcVars, rest, empties, cuts, buffer, position, fieldLength,
                  discardTrailingNewline, lineStart, message, lines, parts, errVars,
                  polls, requests, heap, msgRef, tamperedRef >>

\* lines 106-107 after the final line; line 255 follows
Return ==
  /\ pc = "final"
  /\ requests' = requests + 1
  /\ messages' = OnPartsEnd(messages, message)
  /\ yieldedRefs' = Append(yieldedRefs, msgRef)
  /\ pc' = "done"
  /\ UNCHANGED << srcVars, rest, empties, cuts, reads, buffer, position, fieldLength,
                  discardTrailingNewline, lineStart, message, lines, parts, errVars,
                  polls, pulled, heap, msgRef, tamperedRef >>

\* line 32: reader.read() rejects with e
ReadFail(e) ==
  /\ pc = "read"
  /\ reads' = reads + 1
  /\ pulled' = Pull
  /\ messages' = OnReadRejected(messages, message)
  /\ rejected' = << e >>
  /\ thrown' = Rethrown(e)
  /\ pc' = "failed"
  /\ UNCHANGED << srcVars, rest, empties, cuts, buffer, position, fieldLength,
                  discardTrailingNewline, lineStart, message, lines, parts, polls,
                  requests, objVars >>

\* line 86 and line 224: the consumer, holding the message that the empty
\* line ended, leaves its loop and the generators return at their yield
Cancel ==
  /\ pc = "yield"
  /\ lines[Len(lines)].line = << >>
  /\ pc' = "returned"
  /\ UNCHANGED << srcVars, rest, empties, cuts, reads, buffer, position, fieldLength,
                  discardTrailingNewline, lineStart, message, lines, parts, messages,
                  errVars, polls, demandVars, objVars >>

\* what a consumer writes into a message it was given
Scribble == [data |-> << 33 >>, event |-> << 33 >>, id |-> << 33 >>, retry |-> << 7 >>]

\* the consumer overwrites the fields of the message it has just been given
\* (line 224, line 255), which is the object the variable message holds
Tamper ==
  /\ AtMessageYield
  /\ pc \in {"yield", "done", "returned"}
  /\ tamperedRef = << >>
  /\ heap' = [heap EXCEPT ![msgRef] = Scribble]
  /\ tamperedRef' = << msgRef >>
  /\ UNCHANGED << srcVars, rest, empties, cuts, reads, buffer, position, fieldLength,
                  discardTrailingNewline, lineStart, pc, message, lines, parts, messages,
                  errVars, polls, demandVars, msgRef, yieldedRefs >>

\* a request to a generator that has returned or thrown: { done: true }
Poll ==
  /\ pc \in {"done", "failed", "returned"}
  /\ polls < MaxPolls
  /\ polls' = polls + 1
  /\ UNCHANGED << srcVars, rest, empties, cuts, reads, buffer, position, fieldLength,
                  discardTrailingNewline, lineStart, pc, message, lines, parts,
                  messages, errVars, demandVars,
                  objVars >>

Next ==
  \/ \E n \in 0..Len(rest) : ReadChunk(n)
  \/ ScanExit
  \/ ScanBreak
  \/ ScanYield
  \/ Resume
  \/ ReadDoneFinalLine
  \/ ReadDoneEmpty
  \/ Return
  \/ \E e \in Errors : ReadFail(e)
  \/ Cancel
  \/ Tamper
  \/ Poll

Spec == Init /\ [][Next]_vars
SpecSSE == InitSSE /\ [][Next]_vars

\* The source answers every reader.read() (a chunk, the end of the stream or a
\* rejection), the generators run when resumed, and the consumer either asks
\* for the next element or stops: no enabled step is put off for ever.
SpecLive == InitLive /\ [][Next]_vars /\ WF_vars(Next)

\* ------------------------------------------------------------------------
\* createLineReader as a function of one chunk.

\* lines 50-90: the while loop over one buffer, with the lines it yields
RECURSIVE ScanChunk(_, _, _, _, _, _)
ScanChunk(buf, pos, ls, fl, discard, out) ==
  IF pos >= Len(buf)
  THEN [position |-> pos, lineStart |-> ls, fieldLength |-> fl,
        discard |-> discard, out |-> out]
  ELSE LET s == SkipNewline(buf, pos, ls, discard)
           r == ScanLoop(buf, s.position, s.lineStart, fl, FALSE)
       IN IF r.lineEnd = -1
          THEN [position |-> r.position, lineStart |-> s.lineStart,
                fieldLength |-> r.fieldLength, discard |-> r.discard, out |-> out]
          ELSE ScanChunk(buf, r.position, r.position, -1, r.discard,
                         Append(out, [line |-> SubArray(buf, s.lineStart, r.lineEnd),
                                      fieldLength |-> r.fieldLength]))

\* lines 23-107 for a source that delivers arr as its only chunk and then ends
SingleChunkLines(arr) ==
  LET m == MergeChunk(Undefined, 0, -1, arr)
      c == ScanChunk(m.buffer, m.position, 0, m.fieldLength, FALSE, << >>)
      k == KeepRest(m.buffer, c.position, c.lineStart)
  IN IF k.buffer # Undefined
     THEN Append(c.out, [line |-> k.buffer[1], fieldLength |-> c.fieldLength])
     ELSE c.out

\* ------------------------------------------------------------------------
\* The event-stream format, stated on the stream itself.

IsTerminator(b) == b = NewLine \/ b = CarriageReturn

\* the lines of a stream: the bytes between terminators (LF, CR, or CR LF),
\* and the bytes after the last terminator when there are any
RECURSIVE StreamLinesFrom(_, _, _)
StreamLinesFrom(s, cur, acc) ==
  IF s = << >> THEN (IF cur # << >> THEN Append(acc, cur) ELSE acc)
  ELSE IF Head(s) = CarriageReturn /\ Len(s) >= 2 /\ s[2] = NewLine
       THEN StreamLinesFrom(SubSeq(s, 3, Len(s)), << >>, Append(acc, cur))
  ELSE IF IsTerminator(Head(s))
       THEN StreamLinesFrom(Tail(s), << >>, Append(acc, cur))
  ELSE StreamLinesFrom(Tail(s), Append(cur, Head(s)), acc)

StreamLines(s) == StreamLinesFrom(s, << >>, << >>)

\* the bytes after the last terminator of s
RECURSIVE AfterLastTerminator(_)
AfterLastTerminator(s) ==
  IF s = << >> \/ IsTerminator(s[Len(s)]) THEN << >>
  ELSE Append(AfterLastTerminator(SubSeq(s, 1, Len(s) - 1)), s[Len(s)])

\* terminators of s, a CR LF pair counting once
TerminatorCount(s) ==
  Cardinality({i \in 1..Len(s) :
                 \/ s[i] = CarriageReturn
                 \/ s[i] = NewLine /\ (i = 1 \/ s[i - 1] # CarriageReturn)})

\* index of the first colon of a line, -1 when it has none
FirstColon(line) ==
  IF \E i \in 1..Len(line) : line[i] = Colon
  THEN (CHOOSE i \in 1..Len(line) :
          line[i] = Colon /\ \A j \in 1..(i - 1) : line[j] # Colon) - 1
  ELSE -1

\* s is L1 T L2 T ... Ln T with no CR or LF inside the Li: the Li, else not ok
RECURSIVE SplitOn(_, _, _, _)
SplitOn(s, T, cur, acc) ==
  IF s = << >> THEN [ok |-> cur = << >>, lines |-> acc]
  ELSE IF Len(s) >= Len(T) /\ SubSeq(s, 1, Len(T)) = T
       THEN SplitOn(SubSeq(s, Len(T) + 1, Len(s)), T, << >>, Append(acc, cur))
  ELSE IF IsTerminator(Head(s)) THEN [ok |-> FALSE, lines |-> << >>]
  ELSE SplitOn(Tail(s), T, Append(cur, Head(s)), acc)

Terminators == { << NewLine >>, << CarriageReturn >>, << CarriageReturn, NewLine >> }

LineBytes(ls) == [i \in 1..Len(ls) |-> ls[i].line]

Ended == pc \in {"final", "done"}

\* ------------------------------------------------------------------------
\* C1: however the stream is cut into chunks (empty chunks included), the
\* (line, fieldLength) pairs yielded are those yielded when the same stream
\* arrives as one single chunk.
ChunkBoundaryInvariance == Ended => lines = SingleChunkLines(input)

\* a run with two cuts, one of them between CR and LF, and an empty chunk
ChunkBoundaryWitness ==
  /\ pc = "done"
  /\ Cardinality(cuts) >= 2
  /\ empties >= 1
  /\ Len(lines) >= 2
  /\ \E c \in cuts : input[c] = CarriageReturn /\ input[c + 1] = NewLine

\* C2: a stream L1 T ... Ln T, with T one of LF, CR, CR LF and no CR or LF
\* in the Li, yields exactly L1..Ln under any chunking; CR LF ends one line.
TerminatorsEquivalent ==
  Ended => \A T \in Terminators :
             LET e == SplitOn(input, T, << >>, << >>)
             IN e.ok => LineBytes(lines) = e.lines

\* two lines ended by CR LF, a chunk boundary between a CR and its LF
TerminatorsWitness ==
  /\ pc = "done"
  /\ SplitOn(input, << CarriageReturn, NewLine >>, << >>, << >>).ok
  /\ Len(lines) = 3
  /\ lines[1].line # << >>
  /\ \E c \in cuts : input[c] = CarriageReturn /\ input[c + 1] = NewLine

\* C3: at end of stream the bytes after the last terminator, when there are
\* any, are yielded once as a last line with their fieldLength; otherwise
\* nothing more is yielded.
FinalPartialLine ==
  Ended =>
    LET last == AfterLastTerminator(input)
    IN IF last # << >>
       THEN /\ Len(lines) = TerminatorCount(input) + 1
            /\ lines[Len(lines)] = [line |-> last, fieldLength |-> FirstColon(last)]
       ELSE Len(lines) = TerminatorCount(input)

\* a final line with a colon, received in two chunks after a terminator
FinalPartialWitness ==
  /\ pc = "done"
  /\ Len(AfterLastTerminator(input)) >= 2
  /\ TerminatorCount(input) >= 1
  /\ lines[Len(lines)].fieldLength >= 0
  /\ \E c \in cuts : c > Len(input) - Len(AfterLastTerminator(input))

\* ------------------------------------------------------------------------
\* Parts and messages, stated on what was yielded.

IsEmptyPart(p) == p.type = "empty"
EmptyParts(ps) == Cardinality({i \in 1..Len(ps) : IsEmptyPart(ps[i])})
BlankLines(ls) == Cardinality({i \in 1..Len(ls) : ls[i] = << >>})

\* the parts cut at every Empty part: one segment per Empty part, and the
\* parts after the last one
RECURSIVE SegmentsFrom(_, _, _)
SegmentsFrom(ps, cur, acc) ==
  IF ps = << >> THEN Append(acc, cur)
  ELSE IF IsEmptyPart(Head(ps)) THEN SegmentsFrom(Tail(ps), << >>, Append(acc, cur))
  ELSE SegmentsFrom(Tail(ps), Append(cur, Head(ps)), acc)

Segments(ps) == SegmentsFrom(ps, << >>, << >>)

OfType(seg, t) == SelectSeq(seg, LAMBDA p : p.type = t)
Values(seg, t) == LET d == OfType(seg, t) IN [i \in 1..Len(d) |-> d[i].value]

\* the data parts of seg follow one another
DataContiguous(seg) ==
  \A i, j, k \in 1..Len(seg) :
     i < j /\ j < k /\ seg[i].type = "data" /\ seg[k].type = "data" => seg[j].type = "data"

RECURSIVE JoinNL(_)
JoinNL(vs) ==
  IF vs = << >> THEN << >>
  ELSE IF Len(vs) = 1 THEN vs[1]
  ELSE vs[1] \o << NewLine >> \o JoinNL(Tail(vs))

RECURSIVE DropLeadingEmpty(_)
DropLeadingEmpty(vs) ==
  IF vs # << >> /\ Head(vs) = << >> THEN DropLeadingEmpty(Tail(vs)) ELSE vs

Msg(id, event, data) == [data |-> data, event |-> event, id |-> id, retry |-> << >>]

Txt_abc == << 97, 98, 99 >>
Txt_def == << 100, 101, 102 >>
Txt_add == << 97, 100, 100 >>
Txt_remove == << 114, 101, 109, 111, 118, 101 >>
Txt_abc_def == << 97, 98, 99, 58, 32, 100, 101, 102 >>

\* ------------------------------------------------------------------------
\* C4: a stream that ends without failure yields one message per zero-length
\* line and one more at its end, all-default when nothing followed the last
\* blank line; "id: abc\ndata: def\n" yields the one message {abc, def}.
MessageEmissionCount ==
  pc = "done" =>
    LET sl == StreamLines(input)
    IN /\ Len(messages) = BlankLines(sl) + 1
       /\ (sl = << >> \/ sl[Len(sl)] = << >>) => messages[Len(messages)] = NewMessage
       /\ input = ExIdData => messages = << Msg(Txt_abc, << >>, Txt_def) >>

\* two blank lines, the second with nothing accumulated, then a message at
\* the end of the stream
MessageEmissionWitness ==
  /\ pc = "done"
  /\ Len(messages) = 3
  /\ messages[2] = NewMessage
  /\ messages[3] # NewMessage

\* C5 as stated: "event: add\ndata: 1\n\nevent: remove\ndata: 2\n\n" yields
\* exactly the two messages add/1 and remove/2.
EndToEndTwoMessages ==
  pc = "done" /\ input = ExAddRemove =>
    messages = << Msg(<< >>, Txt_add, << 49 >>), Msg(<< >>, Txt_remove, << 50 >>) >>

\* C5 amended: that stream yields add/1, remove/2 and then an all-default
\* message; a stream that ends right after a blank line yields one message
\* per blank line and then one all-default message.
EndToEndThreeMessages ==
  pc = "done" =>
    /\ input = ExAddRemove =>
         messages = << Msg(<< >>, Txt_add, << 49 >>), Msg(<< >>, Txt_remove, << 50 >>),
                       NewMessage >>
    /\ LET sl == StreamLines(input)
       IN sl # << >> /\ sl[Len(sl)] = << >> =>
            /\ Len(messages) = BlankLines(sl) + 1
            /\ messages[Len(messages)] = NewMessage

\* the example stream, received in chunks of three bytes
EndToEndWitness == pc = "done" /\ input = ExAddRemove /\ sizes = {3}

\* C6 as stated: data parts v1..vk that follow one another between two Empty
\* parts give the message the data v1 \n v2 \n ... \n vk.
DataJoinAll ==
  \A i \in 1..Len(messages) :
     LET seg == Segments(parts)[i]
         vs == Values(seg, "data")
     IN vs # << >> /\ DataContiguous(seg) => messages[i].data = JoinNL(vs)

\* C6 amended: the values that arrive while data is still empty leave no
\* trace; data is vj \n ... \n vk, vj being the first non-empty value, and is
\* empty when every value is empty.
DataJoinFromFirstNonEmpty ==
  \A i \in 1..Len(messages) :
     LET seg == Segments(parts)[i]
         vs == Values(seg, "data")
     IN vs # << >> /\ DataContiguous(seg) =>
          messages[i].data = JoinNL(DropLeadingEmpty(vs))

\* an empty value first, then two values, one of them empty
DataJoinWitness ==
  \E i \in 1..Len(messages) :
     LET vs == Values(Segments(parts)[i], "data")
     IN /\ Len(vs) = 3
        /\ vs[1] = << >>
        /\ vs[2] # << >>
        /\ messages[i].data = vs[2] \o << NewLine >> \o vs[3]

\* a step that yields an Empty part yields the accumulator and resets it
ResetOnEmptyStep ==
  Len(parts') = Len(parts) + 1 /\ IsEmptyPart(parts'[Len(parts')]) =>
    /\ messages' = Append(messages, message)
    /\ message' = NewMessage

\* a field of a message is default, or comes from a part of its own segment
NoCarryOver ==
  \A i \in 1..Len(messages) :
     LET seg == Segments(parts)[i]
         m == messages[i]
     IN /\ m.id \in {seg[j].value : j \in {k \in 1..Len(seg) : seg[k].type = "id"}}
                    \cup {<< >>}
        /\ m.event \in {seg[j].value : j \in {k \in 1..Len(seg) : seg[k].type = "event"}}
                       \cup {<< >>}
        /\ OfType(seg, "id") = << >> => m.id = << >>
        /\ OfType(seg, "event") = << >> => m.event = << >>
        /\ OfType(seg, "data") = << >> => m.data = << >>
        /\ OfType(seg, "retry") = << >> => m.retry = << >>

\* C7: an Empty part makes exactly one emission and leaves the accumulator
\* all-default; a message holds nothing of the parts before the previous
\* Empty part.
FullResetOnEmpty == [][ResetOnEmptyStep]_vars /\ []NoCarryOver

\* a message with an id, then a later message that has content and no id
FullResetWitness ==
  /\ Len(messages) >= 2
  /\ messages[1].id # << >>
  /\ messages[2].id = << >>
  /\ messages[2] # NewMessage

\* ------------------------------------------------------------------------
\* Field lines, stated on the line itself.

KnownFields == {Str_data, Str_event, Str_id, Str_retry}

\* the field name of a non-empty line: the text before its first colon, the
\* whole line when it has no colon
FieldName(line) ==
  IF FirstColon(line) = -1 THEN Decode(line)
  ELSE Decode(SubSeq(line, 1, FirstColon(line)))

\* the bytes after the first colon, less one leading space
FieldValue(line) ==
  LET after == SubSeq(line, FirstColon(line) + 2, Len(line))
  IN IF after # << >> /\ after[1] = Space THEN Tail(after) ELSE after

\* a base-10 integer: an optional sign and one digit or more, nothing else
IsInteger(v) ==
  LET d == IF v # << >> /\ v[1] \in {43, 45} THEN Tail(v) ELSE v
  IN d # << >> /\ \A i \in 1..Len(d) : d[i] >= 48 /\ d[i] <= 57

RECURSIVE DecimalValue(_)
DecimalValue(d) ==
  IF d = << >> THEN 0 ELSE 10 * DecimalValue(SubSeq(d, 1, Len(d) - 1)) + (d[Len(d)] - 48)

IntegerValue(v) ==
  IF v[1] = 45 THEN 0 - DecimalValue(Tail(v))
  ELSE IF v[1] = 43 THEN DecimalValue(Tail(v))
  ELSE DecimalValue(v)

RECURSIVE PartsOfLines(_)
PartsOfLines(ls) ==
  IF ls = << >> THEN << >>
  ELSE PartsOfLine(Head(ls).line, Head(ls).fieldLength) \o PartsOfLines(Tail(ls))

\* C8: a non-empty line with an unknown field name gives no part; a retry
\* line gives Retry(n) if and only if its value is a base-10 integer n, and no
\* part otherwise; neither fails the sequence, and later lines are processed.
MalformedDropped ==
  /\ thrown # << >> => rejected # << >>
  /\ parts = PartsOfLines(lines)
  /\ \A i \in 1..Len(lines) :
        LET l == lines[i].line
            ps == PartsOfLine(l, lines[i].fieldLength)
        IN l # << >> =>
             /\ FieldName(l) \notin KnownFields => ps = << >>
             /\ FieldName(l) = Str_retry /\ FirstColon(l) > 0 =>
                  LET v == Decode(FieldValue(l))
                  IN IF IsInteger(v)
                     THEN ps = << [type |-> "retry", value |-> IntegerValue(v)] >>
                     ELSE ps = << >>

\* a line whose field name is data, event or id
IsValueLine(rec) ==
  /\ FirstColon(rec.line) > 0
  /\ FieldName(rec.line) \in {Str_data, Str_event, Str_id}

ValuePart(rec) ==
  [type |-> IF FieldName(rec.line) = Str_data THEN "data"
            ELSE IF FieldName(rec.line) = Str_event THEN "event" ELSE "id",
   value |-> Decode(FieldValue(rec.line))]

\* C9: a data, event or id line gives the part whose value is the text after
\* the first colon, less one leading space; later colons and a second space
\* stay in the value.
FieldValueSplit ==
  /\ LET sel == SelectSeq(lines, IsValueLine)
     IN SelectSeq(parts, LAMBDA p : p.type \in {"data", "event", "id"})
          = [i \in 1..Len(sel) |-> ValuePart(sel[i])]
  /\ pc = "done" /\ input = ExColons =>
       parts = << [type |-> "id", value |-> Txt_abc_def] >>

\* "id: abc: def\n" received in chunks of three bytes
FieldValueWitness ==
  pc = "done" /\ input = ExColons /\ sizes = {3} /\ Len(parts) = 1

\* the consumer holds the rejection of the read, and no message was flushed
FailedState ==
  /\ (pc = "failed") <=> (thrown # << >>)
  /\ pc = "failed" =>
       /\ thrown = rejected
       /\ Len(messages) = EmptyParts(parts)
       /\ parts = PartsOfLines(lines)

\* after the failure nothing is read and nothing is yielded
FailedStep ==
  pc = "failed" =>
    /\ pc' = "failed"
    /\ reads' = reads
    /\ lines' = lines
    /\ parts' = parts
    /\ messages' = messages
    /\ thrown' = thrown

\* C10: a rejected read rejects the consumer's request with the same value;
\* the read is not repeated, nothing more is yielded, and the accumulated
\* message is not emitted.
UpstreamFailureTerminal == []FailedState /\ [][FailedStep]_vars

\* the read fails while a message is half accumulated, and the consumer asks
\* again afterwards
UpstreamFailureWitness ==
  /\ pc = "failed"
  /\ polls >= 1
  /\ message # NewMessage
  /\ messages # << >>

\* ------------------------------------------------------------------------
\* a byte that cannot be decoded as UTF-8 text
HasInvalidByte(line) == \E j \in 1..Len(line) : line[j] >= 128

SeparatorOffset ==
  \A i \in 1..Len(lines) :
     /\ lines[i].fieldLength = FirstColon(lines[i].line)
     /\ lines[i].fieldLength = -1 <=> (\A j \in 1..Len(lines[i].line) : lines[i].line[j] # Colon)

\* ":\na:" with a chunk boundary before the second colon: the second line
\* starts in a re-sliced buffer and follows a line with a colon of its own
SeparatorOffsetWitness ==
  /\ Ended
  /\ input = << Colon, NewLine, 97, Colon >>
  /\ cuts = {3}
  /\ Len(lines) = 2
  /\ lines[1].fieldLength = 0
  /\ lines[2].fieldLength = 1

\* ------------------------------------------------------------------------
\* what readEventMessagePart adds to its output for the line just yielded
ClassifyStep ==
  lines' # lines =>
    LET rec == lines'[Len(lines')]
        new == SubSeq(parts', Len(parts) + 1, Len(parts'))
    IN /\ Len(parts') >= Len(parts)
       /\ SubSeq(parts', 1, Len(parts)) = parts
       /\ Len(new) <= 1
       /\ new = << [type |-> "empty"] >> <=> rec.line = << >>
       /\ rec.line # << >> /\ FirstColon(rec.line) <= 0 => new = << >>

\* the comments and the bare "data" line give nothing
CommentsDropped ==
  pc = "done" /\ input = ExComments =>
    parts = << [type |-> "id", value |-> << 97 >>], [type |-> "empty"] >>

\* C13: each line gives at most one part, in line order; it gives Empty if and
\* only if it has no bytes; a non-empty line whose first colon is its first
\* byte, or that has no colon, gives nothing.
LineClassification == [][ClassifyStep]_vars /\ []CommentsDropped

\* ":c", "data", "id:a", ":" and "" have been read, in chunks of three bytes
LineClassificationWitness ==
  /\ pc = "done"
  /\ input = ExComments
  /\ sizes = {3}
  /\ Len(lines) = 5
  /\ Len(parts) = 2

\* ------------------------------------------------------------------------
\* lines ended by a terminator among the first n bytes of the stream
CompleteLines(n) == TerminatorCount(SubSeq(input, 1, n))

\* a step that calls reader.read()
PullStep ==
  reads' = reads + 1 =>
    /\ pc = "read"
    /\ Len(lines) = CompleteLines(Len(Delivered))
    /\ requests = Len(lines) + 1
    /\ pulled # << >> /\ pulled[1].request = requests =>
         CompleteLines(Len(Delivered)) = CompleteLines(pulled[1].received)

\* the lines yielded never outnumber the requests, and once the consumer has
\* stopped nothing is read or yielded
NoReadAhead ==
  /\ Len(lines) <= requests
  /\ pc \in {"read", "scan"} => requests = Len(lines) + 1
  /\ pc \in {"yield", "returned"} => requests = Len(lines)

\* C14: reader.read() is called only when every line ended in the chunks
\* received so far has been yielded and a request is outstanding; a second
\* call within one request follows a chunk that ended no line; nothing is
\* read once the consumer has stopped.
DemandDrivenPulls ==
  [][PullStep /\ (pc = "returned" => reads' = reads /\ lines' = lines)]_vars /\ []NoReadAhead

\* the consumer has stopped after a request that took more than one chunk,
\* with a chunk still to come
DemandDrivenWitness ==
  /\ pc = "returned"
  /\ Len(lines) >= 2
  /\ reads > Len(lines)
  /\ rest # << >>

\* ------------------------------------------------------------------------
\* C15: while createLineReader waits for a chunk, its buffer holds exactly the
\* bytes received since the last terminator: no byte of a yielded line, no
\* terminator; it is absent when there is no such byte, never present and empty.
CarryOverBuffer ==
  pc = "read" =>
    /\ buffer = IF AfterLastTerminator(Delivered) = << >>
                THEN Undefined
                ELSE Some(AfterLastTerminator(Delivered))
    /\ buffer # Some(<< >>)
    /\ buffer # Undefined => \A i \in 1..Len(buffer[1]) : ~IsTerminator(buffer[1][i])

\* waiting for a chunk with lines already yielded and a started line kept
CarryOverWitness ==
  /\ pc = "read"
  /\ Len(lines) >= 1
  /\ buffer # Undefined
  /\ Len(buffer[1]) >= 2
  /\ rest # << >>

\* ------------------------------------------------------------------------
\* the objects yielded so far
YieldedObjects == {yieldedRefs[j] : j \in 1..Len(yieldedRefs)}

\* a yielded object changes only when the consumer overwrites it, and the
\* object yielded by a step has the content its parts alone determine
SnapshotStep ==
  /\ \A r \in YieldedObjects :
        heap'[r] # heap[r] => tamperedRef = << >> /\ tamperedRef' = << r >>
  /\ Len(yieldedRefs') > Len(yieldedRefs) =>
        /\ Len(messages') = Len(yieldedRefs')
        /\ heap'[yieldedRefs'[Len(yieldedRefs')]] = messages'[Len(messages')]

\* every yielded message is an object of its own and keeps its content
SnapshotsKept ==
  /\ Len(messages) = Len(yieldedRefs)
  /\ \A i, j \in 1..Len(yieldedRefs) : i # j => yieldedRefs[i] # yieldedRefs[j]
  /\ \A j \in 1..Len(yieldedRefs) :
        heap[yieldedRefs[j]] = IF tamperedRef = << yieldedRefs[j] >> THEN Scribble
                               ELSE messages[j]

\* while parts are being collected the accumulator is an object never yielded,
\* and holds what the parts since the last emission determine
AccumulatorApart ==
  pc \in {"read", "scan", "final"} \/ (pc = "yield" /\ lines[Len(lines)].line # << >>) =>
    /\ msgRef \notin YieldedObjects
    /\ heap[msgRef] = message

\* C16: no later part changes a yielded message; a consumer that overwrites a
\* yielded message changes no message yielded later; the accumulator that
\* parts are collected in is never an object yielded before.
EmittedSnapshots == [][SnapshotStep]_vars /\ []SnapshotsKept /\ []AccumulatorApart

\* the consumer overwrote the first message when it was given it; the
\* second message, with data, was yielded after that
EmittedSnapshotsWitness ==
  /\ pc = "done"
  /\ Len(yieldedRefs) >= 3
  /\ tamperedRef = << yieldedRefs[1] >>
  /\ heap[yieldedRefs[2]].data # << >>
  /\ heap[yieldedRefs[2]] = messages[2]

\* ------------------------------------------------------------------------
\* the last of vs, none when there is no value
LastOr(vs, none) == IF vs = << >> THEN none ELSE vs[Len(vs)]

\* each emitted message carries the last event, id and retry of its parts
LastValues ==
  pc = "done" =>
    /\ Len(messages) = Len(Segments(parts))
    /\ \A j \in 1..Len(messages) :
          LET seg == Segments(parts)[j]
              retries == Values(seg, "retry")
          IN /\ messages[j].event = LastOr(Values(seg, "event"), << >>)
             /\ messages[j].id = LastOr(Values(seg, "id"), << >>)
             /\ messages[j].retry = IF retries = << >> THEN << >>
                                    ELSE << retries[Len(retries)] >>

\* a part writes its own field of the accumulator and no other
OwnFieldStep ==
  Len(parts') = Len(parts) + 1 /\ ~IsEmptyPart(parts'[Len(parts')]) =>
    LET p == parts'[Len(parts')]
    IN /\ p.type # "data" => message'.data = message.data
       /\ p.type # "event" => message'.event = message.event
       /\ p.type # "id" => message'.id = message.id
       /\ p.type # "retry" => message'.retry = message.retry
       /\ p.type = "event" => message'.event = p.value
       /\ p.type = "id" => message'.id = p.value
       /\ p.type = "retry" => message'.retry = << p.value >>
       /\ messages' = messages

\* C17: of several event, id or retry parts between two emissions the emitted
\* message carries the last of each kind and nothing of the earlier ones; a
\* part of one kind leaves the other three fields of the accumulator as they are.
LastWriteWins == [][OwnFieldStep]_vars /\ []LastValues

\* the stream that sets event, retry and id twice has been read
LastWriteWitness ==
  /\ pc = "done"
  /\ input = ExLastWrite
  /\ sizes = {3}
  /\ Len(parts) = 8
  /\ messages[1] = [data |-> << 120 >>, event |-> << 98 >>, id |-> << 98 >>, retry |-> << 2 >>]

\* ------------------------------------------------------------------------
RECURSIVE Flatten(_)
Flatten(ss) == IF ss = << >> THEN << >> ELSE Head(ss) \o Flatten(Tail(ss))

\* s without its CR and LF bytes
WithoutTerminators(s) == SelectSeq(s, LAMBDA b : ~IsTerminator(b))

\* C18: when a stream has ended without failure, no yielded line holds a CR or
\* LF, and the yielded lines put end to end are the stream without its CR and
\* LF bytes: no byte is lost, doubled or moved.
ByteConservation ==
  Ended =>
    /\ \A i \in 1..Len(lines) : \A k \in 1..Len(lines[i].line) : ~IsTerminator(lines[i].line[k])
    /\ Flatten(LineBytes(lines)) = WithoutTerminators(input)

\* "a\r\na" received byte by byte: two lines, the CR LF pair cut in two
ByteConservationWitness ==
  /\ Ended
  /\ input = << 97, CarriageReturn, NewLine, 97 >>
  /\ cuts = {1, 2, 3}
  /\ LineBytes(lines) = << << 97 >>, << 97 >> >>

\* ------------------------------------------------------------------------
\* the sequences have ended: returned, failed, or left by the consumer
Terminated == pc \in {"done", "failed", "returned"}

\* an iteration of the while loop of line 50 moves the read position forward
\* or leaves the loop
ScanProgressStep == pc = "scan" => position' > position \/ pc' = "read"

\* what is still to be done never grows: bytes to receive, bytes to scan
Remaining == 2 * Len(rest) + (IF buffer = Undefined THEN 0 ELSE Len(buffer[1]) - position)

\* C19: for a finite sequence of chunks followed by the end of the stream, and
\* a consumer that keeps asking, the line, part and message sequences end
\* after finitely many elements; every iteration of the scan loop moves the
\* read position forward by a byte or more, or leaves the loop.
Termination ==
  /\ <>[]Terminated
  /\ [][ScanProgressStep /\ Remaining' <= Remaining]_vars
  /\ [](Len(lines) <= Len(input) + 1 /\ Len(parts) <= Len(lines) /\ Len(messages) <= Len(lines) + 1)

\* a stream of several lines, received in several chunks with an empty one
\* among them, has been read to its end
TerminationWitness ==
  /\ pc = "done"
  /\ Len(lines) >= 2
  /\ reads >= 4
  /\ empties = MaxEmpty

\* ------------------------------------------------------------------------
\* the bytes of s before its first CR or LF
RECURSIVE UpToTerminator(_)
UpToTerminator(s) ==
  IF s = << >> \/ IsTerminator(Head(s)) THEN << >>
  ELSE << Head(s) >> \o UpToTerminator(Tail(s))

\* where the flag is set, the read position is the start of the next line
FlagPosition ==
  discardTrailingNewline =>
    /\ pc = "yield" => buffer[1][position] = CarriageReturn
    /\ pc = "scan" =>
         /\ position = lineStart
         /\ position = 0 \/ buffer[1][position] = CarriageReturn
         /\ Len(Delivered) > Len(buffer[1]) - position
         /\ Delivered[Len(Delivered) - (Len(buffer[1]) - position)] = CarriageReturn
    /\ pc = "read" =>
         /\ buffer = Undefined
         /\ Delivered # << >> /\ Delivered[Len(Delivered)] = CarriageReturn

\* the flag stays set until a byte is there to look at; that byte alone is
\* dropped, and only when it is LF; any other byte starts the next line
FlagStep ==
  discardTrailingNewline =>
    IF pc = "scan" /\ position < Len(buffer[1])
    THEN LET buf == buffer[1]
             start == IF buf[position + 1] = NewLine THEN position + 1 ELSE position
             after == SubSeq(buf, start + 1, Len(buf))
             line == UpToTerminator(after)
         IN IF Len(line) < Len(after)
            THEN /\ lines' = Append(lines, [line |-> line, fieldLength |-> FirstColon(line)])
                 /\ discardTrailingNewline' = (after[Len(line) + 1] = CarriageReturn)
            ELSE /\ lines' = lines
                 /\ buffer' = IF after = << >> THEN Undefined ELSE Some(after)
                 /\ ~discardTrailingNewline'
    ELSE discardTrailingNewline' /\ lines' = lines

\* C20: where discardTrailingNewline is set the read position is the start of
\* the next line, and the buffer is absent if the splitter waits for a chunk;
\* the flag survives empty chunks and removes at most one byte, the byte right
\* after the CR when it is LF; any other byte clears the flag and is kept.
CarriageReturnFlag == [][FlagStep]_vars /\ []FlagPosition

\* the flag is set while a chunk is awaited, the chunk before was empty, and
\* the LF of the pair is still to come
CarriageReturnFlagWitness ==
  /\ pc = "read"
  /\ discardTrailingNewline
  /\ pulled # << >>
  /\ pulled[1].received = Len(Delivered)
  /\ rest # << >>
  /\ rest[1] = NewLine

====
